---- MODULE Spec2Model ----
(***************************************************************************)
(* The blood request contract of lifebank-soroban/contracts/requests:      *)
(* its instance storage (administrator, request counter), its persistent   *)
(* storage (one BloodRequest per id), the ledger timestamp, and the five   *)
(* exposed operations of RequestContract.  One action is one invocation,   *)
(* run to completion.  The variables op, auths, args, result, ret and      *)
(* events record the most recent invocation: who authorized it, what was   *)
(* passed, how it ended and what it published; before is the storage as    *)
(* that invocation found it, and history lists, for each request, the      *)
(* statuses written to its record, oldest first.                           *)
(*                                                                         *)
(* Option<T> is a sequence of length at most one: None is <<>>, Some(x) is *)
(* <<x>>.  A Result is the string "Ok" or the name of the ContractError.   *)
(* Two outcomes are not ContractErrors: "HostAuthError", the abort of a    *)
(* failing require_auth, and "HostPanic", the abort of a panic: the expect  *)
(* in storage::get_admin, or an integer overflow in a build that checks    *)
(* for it.  overflow_checks is that property of the build: with it an      *)
(* overflowing u64 addition panics, without it the sum wraps.              *)
(*                                                                         *)
(* The u64 of the source is a word of 30 bits here, so that every sum of   *)
(* two words stays below 2^31; the constants of the program keep their     *)
(* values.                                                                 *)
(***************************************************************************)
EXTENDS Integers, Sequences, FiniteSets, TLC

VARIABLES admin, counter, requests, now, op, auths, args, result, ret, events, before, overflow_checks, history

vars == <<admin, counter, requests, now, op, auths, args, result, ret, events, before, overflow_checks, history>>

(* ------------------------------ bounds -------------------------------- *)

\* At most this many requests are created.
MaxRequests == 2

\* At most this many ledgers close after the initial one.
MaxLedgers == 1

\* The seconds between the timestamps of two ledgers.
LedgerSeconds == 5

\* The ledger timestamp of the initial state.
StartTime == 1000

(* ------------------------- program constants -------------------------- *)

MIN_REQUEST_QUANTITY_ML == 50

MAX_REQUEST_QUANTITY_ML == 5000

MAX_DAYS_IN_FUTURE == 30

SECONDS_PER_DAY == 86400

(* ------------------------------- types -------------------------------- *)

\* u64::MAX, of the 30 bit word
U64_MAX == 2^30 - 1

\* u64 addition where it wraps
wrapping_add(x, y) == (x + y) % (U64_MAX + 1)

\* u64 addition overflows
add_overflows(x, y) == x + y > U64_MAX

\* i64::MAX, of the 30 bit word; i64::MIN is -I64_MAX - 1
I64_MAX == 2^29 - 1

\* x as i64, for a u64 x: the same bits read in two's complement
as_i64(x) == IF x > I64_MAX THEN x - (U64_MAX + 1) ELSE x

\* i64 subtraction overflows
sub_overflows(x, y) == x - y > I64_MAX \/ x - y < -I64_MAX - 1

\* i64 subtraction where it wraps
wrapping_sub(x, y) ==
    ((x - y + I64_MAX + 1) % (U64_MAX + 1)) - I64_MAX - 1

None == <<>>

Some(x) == <<x>>

BloodType ==
    {"APositive", "ANegative", "BPositive", "BNegative",
     "ABPositive", "ABNegative", "OPositive", "ONegative"}

UrgencyLevel == {"Critical", "Urgent", "Normal"}

RequestStatus ==
    {"Pending", "Approved", "Fulfilled", "Completed", "Rejected", "Cancelled"}

ContractError ==
    {"AlreadyInitialized", "NotInitialized", "Unauthorized",
     "InvalidAmount", "InvalidAddress", "InvalidInput", "InvalidBloodType",
     "InvalidStatus", "InvalidTimestamp", "InvalidQuantity",
     "InvalidExpiration",
     "AlreadyExists", "NotFound", "Expired", "RequestExpired",
     "DuplicateRequest",
     "InsufficientPermissions", "NotAuthorizedHospital",
     "NotAuthorizedBloodBank",
     "RequestNotFound", "InvalidStatusTransition", "RequestAlreadyFulfilled",
     "InsufficientBloodUnits", "RequestOverdue"}

\* The aborts of the host, which carry no ContractError.
HostAbort == {"HostAuthError", "HostPanic"}

(* ------------------------------- inputs ------------------------------- *)

\* The identities that take part: two accounts, either of which may be
\* made administrator.
Address == {"GA", "GB"}

\* The authorizations an invocation may carry: it is signed by one account.
AuthSets == {{x} : x \in Address}

\* The unit id vectors passed to assign_blood_units: the empty one, and one
\* that is neither sorted nor free of repeats.
UnitVectors == {<<>>, <<2, 2, 1>>}

\* The latest deadline validation accepts, as an offset from the ledger time.
MaxFuture == MAX_DAYS_IN_FUTURE * SECONDS_PER_DAY

\* Two requests that pass validation at ledger time t, one at each accepted
\* boundary of quantity and deadline, differing in every field.
Template1(t) ==
    [blood_type |-> "OPositive", quantity_ml |-> MIN_REQUEST_QUANTITY_ML,
     urgency |-> "Critical", required_by |-> t + 1,
     delivery_address |-> "Ward 7", patient_id |-> "GB",
     procedure |-> "Surgery", notes |-> "Notes"]

Template2(t) ==
    [blood_type |-> "ABNegative", quantity_ml |-> MAX_REQUEST_QUANTITY_ML,
     urgency |-> "Normal", required_by |-> t + MaxFuture,
     delivery_address |-> "Hospital", patient_id |-> "GA",
     procedure |-> "Transfusion", notes |-> ""]

\* The request p with any of its quantity, deadline and address replaced by
\* a value just outside what validation accepts at ledger time t.
Corruptions(p, t) ==
    {[p EXCEPT !.quantity_ml = q, !.required_by = r, !.delivery_address = a] :
        q \in {p.quantity_ml, MIN_REQUEST_QUANTITY_ML - 1,
               MAX_REQUEST_QUANTITY_ML + 1},
        r \in {p.required_by, t, t + MaxFuture + 1},
        a \in {p.delivery_address, ""}}

\* The parameters passed to create_request at ledger time t: those of the
\* above whose deadline is a u64.
CreateInputs(t) ==
    {p \in Corruptions(Template1(t), t) \cup {Template2(t)} :
        p.required_by <= U64_MAX}

\* The ids passed to the operations that take one: every id that may exist
\* and one that never does.
RequestIds == 1 .. (MaxRequests + 1)

(* ------------------------------ types.rs ------------------------------ *)

\* can_transition_to with one more arm, from Pending straight to Fulfilled
can_transition_to_skip(self, new_status) ==
    CASE self = "Pending" /\ new_status = "Approved" -> TRUE
      [] self = "Pending" /\ new_status = "Rejected" -> TRUE
      [] self = "Pending" /\ new_status = "Cancelled" -> TRUE
      [] self = "Pending" /\ new_status = "Fulfilled" -> TRUE
      [] self = "Approved" /\ new_status = "Fulfilled" -> TRUE
      [] self = "Approved" /\ new_status = "Cancelled" -> TRUE
      [] self = "Fulfilled" /\ new_status = "Completed" -> TRUE
      [] OTHER -> FALSE

\* can_transition_to with a Rejected request allowed back to Pending
can_transition_to_reopen(self, new_status) ==
    CASE self = "Pending" /\ new_status = "Approved" -> TRUE
      [] self = "Pending" /\ new_status = "Rejected" -> TRUE
      [] self = "Pending" /\ new_status = "Cancelled" -> TRUE
      [] self = "Approved" /\ new_status = "Fulfilled" -> TRUE
      [] self = "Approved" /\ new_status = "Cancelled" -> TRUE
      [] self = "Fulfilled" /\ new_status = "Completed" -> TRUE
      [] self = "Rejected" /\ new_status = "Pending" -> TRUE
      [] OTHER -> FALSE

\* can_transition_to without the arm from Fulfilled to Completed
can_transition_to_no_completion(self, new_status) ==
    CASE self = "Pending" /\ new_status = "Approved" -> TRUE
      [] self = "Pending" /\ new_status = "Rejected" -> TRUE
      [] self = "Pending" /\ new_status = "Cancelled" -> TRUE
      [] self = "Approved" /\ new_status = "Fulfilled" -> TRUE
      [] self = "Approved" /\ new_status = "Cancelled" -> TRUE
      [] OTHER -> FALSE

\* can_transition_to with an arm that takes a fulfilment back
can_transition_to_unfulfil(self, new_status) ==
    CASE self = "Pending" /\ new_status = "Approved" -> TRUE
      [] self = "Pending" /\ new_status = "Rejected" -> TRUE
      [] self = "Pending" /\ new_status = "Cancelled" -> TRUE
      [] self = "Approved" /\ new_status = "Fulfilled" -> TRUE
      [] self = "Approved" /\ new_status = "Cancelled" -> TRUE
      [] self = "Fulfilled" /\ new_status = "Completed" -> TRUE
      [] self = "Fulfilled" /\ new_status = "Approved" -> TRUE
      [] OTHER -> FALSE

\* RequestStatus::can_transition_to
can_transition_to(self, new_status) ==
    CASE self = "Pending" /\ new_status = "Approved" -> TRUE
      [] self = "Pending" /\ new_status = "Rejected" -> TRUE
      [] self = "Pending" /\ new_status = "Cancelled" -> TRUE
      [] self = "Approved" /\ new_status = "Fulfilled" -> TRUE
      [] self = "Approved" /\ new_status = "Cancelled" -> TRUE
      [] self = "Fulfilled" /\ new_status = "Completed" -> TRUE
      [] self = "Rejected" -> FALSE
      [] self = "Completed" -> FALSE
      [] self = "Cancelled" -> FALSE
      [] OTHER -> FALSE

\* is_terminal with Fulfilled counted as terminal
is_terminal_fulfilled(self) ==
    self \in {"Rejected", "Completed", "Cancelled", "Fulfilled"}

\* RequestStatus::is_terminal
is_terminal(self) == self \in {"Rejected", "Completed", "Cancelled"}

\* UrgencyLevel::max_fulfillment_time
max_fulfillment_time(self) ==
    CASE self = "Critical" -> 3600
      [] self = "Urgent" -> 21600
      [] self = "Normal" -> 86400

\* validate with the 30 day limit exclusive, unlike validate_request_creation
validate_strict(self, current_time) ==
    IF self.quantity_ml < 50 \/ self.quantity_ml > 5000
    THEN "InvalidQuantity"
    ELSE IF self.required_by <= current_time
    THEN "InvalidTimestamp"
    ELSE IF self.required_by >= current_time + (30 * 86400)
    THEN "InvalidTimestamp"
    ELSE IF self.created_at >= self.required_by
    THEN "InvalidTimestamp"
    ELSE IF Len(self.delivery_address) = 0
    THEN "InvalidInput"
    ELSE "Ok"

\* BloodRequest::validate; the sum of line 190 panics on overflow in a
\* build that checks for it and wraps otherwise
validate(self, current_time) ==
    IF self.quantity_ml < 50 \/ self.quantity_ml > 5000
    THEN "InvalidQuantity"
    ELSE IF self.required_by <= current_time
    THEN "InvalidTimestamp"
    ELSE IF overflow_checks /\ add_overflows(current_time, 30 * 86400)
    THEN "HostPanic"
    ELSE IF self.required_by > wrapping_add(current_time, 30 * 86400)
    THEN "InvalidTimestamp"
    ELSE IF self.created_at >= self.required_by
    THEN "InvalidTimestamp"
    ELSE IF Len(self.delivery_address) = 0
    THEN "InvalidInput"
    ELSE "Ok"

\* is_overdue with the deadline itself counted as overdue
is_overdue_at_deadline(self, current_time) == current_time >= self.required_by

\* BloodRequest::is_overdue
is_overdue(self, current_time) == current_time > self.required_by

\* BloodRequest::time_remaining: both operands are cast to i64 and then
\* subtracted; the subtraction panics on overflow in a build that checks
\* for it (time_remaining_aborts) and wraps otherwise.
time_remaining_aborts(self, current_time) ==
    overflow_checks
    /\ sub_overflows(as_i64(self.required_by), as_i64(current_time))

time_remaining(self, current_time) ==
    wrapping_sub(as_i64(self.required_by), as_i64(current_time))

\* BloodRequest::can_fulfill
can_fulfill(self, current_time) ==
    ~is_overdue(self, current_time) /\ self.status = "Approved"

(* ---------------------------- validation.rs --------------------------- *)

\* validate_request_creation with both quantity limits exclusive
validate_request_creation_exclusive(current_time, quantity_ml, required_by) ==
    IF quantity_ml <= MIN_REQUEST_QUANTITY_ML
       \/ quantity_ml >= MAX_REQUEST_QUANTITY_ML
    THEN "InvalidQuantity"
    ELSE IF required_by <= current_time
    THEN "InvalidTimestamp"
    ELSE IF required_by > current_time + (MAX_DAYS_IN_FUTURE * SECONDS_PER_DAY)
    THEN "InvalidTimestamp"
    ELSE "Ok"

\* validate_request_creation with the deadline checked before the quantity
validate_request_creation_deadline_first(current_time, quantity_ml, required_by) ==
    IF required_by <= current_time
    THEN "InvalidTimestamp"
    ELSE IF overflow_checks
            /\ add_overflows(current_time, MAX_DAYS_IN_FUTURE * SECONDS_PER_DAY)
    THEN "HostPanic"
    ELSE IF required_by
            > wrapping_add(current_time, MAX_DAYS_IN_FUTURE * SECONDS_PER_DAY)
    THEN "InvalidTimestamp"
    ELSE IF quantity_ml < MIN_REQUEST_QUANTITY_ML
            \/ quantity_ml > MAX_REQUEST_QUANTITY_ML
    THEN "InvalidQuantity"
    ELSE "Ok"

\* validation::validate_request_creation, at ledger time current_time; the
\* sum of line 37 panics on overflow in a build that checks for it and wraps
\* otherwise
validate_request_creation(current_time, quantity_ml, required_by) ==
    IF quantity_ml < MIN_REQUEST_QUANTITY_ML
       \/ quantity_ml > MAX_REQUEST_QUANTITY_ML
    THEN "InvalidQuantity"
    ELSE IF required_by <= current_time
    THEN "InvalidTimestamp"
    ELSE IF overflow_checks
            /\ add_overflows(current_time, MAX_DAYS_IN_FUTURE * SECONDS_PER_DAY)
    THEN "HostPanic"
    ELSE IF required_by
            > wrapping_add(current_time, MAX_DAYS_IN_FUTURE * SECONDS_PER_DAY)
    THEN "InvalidTimestamp"
    ELSE "Ok"

\* validate_delivery_address that accepts every address
validate_delivery_address_lenient(address) == "Ok"

\* validation::validate_delivery_address
validate_delivery_address(address) ==
    IF Len(address) = 0 THEN "InvalidInput" ELSE "Ok"

\* validation::validate_blood_type
validate_blood_type(blood_type) == "Ok"

\* validation::time_until_deadline, as BloodRequest::time_remaining
time_until_deadline_aborts(required_by, current_time) ==
    overflow_checks /\ sub_overflows(as_i64(required_by), as_i64(current_time))

time_until_deadline(required_by, current_time) ==
    wrapping_sub(as_i64(required_by), as_i64(current_time))

\* The ? operator: the first error ends the function, otherwise the rest runs.
AndThen(r, rest) == IF r /= "Ok" THEN r ELSE rest

(* ----------------------------- storage.rs ----------------------------- *)

\* storage::get_request_counter: the stored counter, 0 when none was stored
get_request_counter(stored) == stored

\* increment_request_id without the increment
increment_request_id_stale(stored) == get_request_counter(stored)

\* storage::increment_request_id: the id returned, which is also stored
increment_request_id(stored) == get_request_counter(stored) + 1

\* set_blood_request with the key taken from the request counter
set_blood_request_at_counter(store, request) ==
    [k \in DOMAIN store \cup {counter} |->
        IF k = counter THEN request ELSE store[k]]

\* storage::set_blood_request: the record is written under its own id
set_blood_request(store, request) ==
    [k \in DOMAIN store \cup {request.id} |->
        IF k = request.id THEN request ELSE store[k]]

\* get_blood_request that falls back to the latest record
get_blood_request_or_latest(store, request_id) ==
    IF request_id \in DOMAIN store THEN Some(store[request_id])
    ELSE IF counter \in DOMAIN store THEN Some(store[counter])
    ELSE None

\* storage::get_blood_request
get_blood_request(store, request_id) ==
    IF request_id \in DOMAIN store THEN Some(store[request_id]) ELSE None

\* storage::get_admin: the stored administrator; the expect aborts the
\* invocation when none is stored (get_admin_aborts).
get_admin_aborts(stored_admin) == stored_admin = None

get_admin(stored_admin) == stored_admin[1]

\* storage::set_admin
set_admin(new_admin) == Some(new_admin)

\* is_authorized_hospital that accepts every hospital
is_authorized_hospital_any(stored_admin, hospital) == TRUE

\* storage::is_authorized_hospital
is_authorized_hospital(stored_admin, hospital) ==
    hospital = get_admin(stored_admin)

\* Address::require_auth: the invocation carries the address's authorization
require_auth(a, address) == address \in a

(* ------------------------------ events.rs ----------------------------- *)

\* events::emit_request_created
emit_request_created(t, request_id, hospital_id, blood_type, quantity_ml, urgency, required_by) ==
    [topic |-> "request_created", request_id |-> request_id,
     hospital_id |-> hospital_id, blood_type |-> blood_type,
     quantity_ml |-> quantity_ml, urgency |-> urgency,
     required_by |-> required_by, created_at |-> t]

\* emit_request_status_changed with the two statuses exchanged
emit_request_status_changed_swapped(t, request_id, old_status, new_status) ==
    [topic |-> "request_status_changed", request_id |-> request_id,
     old_status |-> new_status, new_status |-> old_status, changed_at |-> t]

\* events::emit_request_status_changed
emit_request_status_changed(t, request_id, old_status, new_status) ==
    [topic |-> "request_status_changed", request_id |-> request_id,
     old_status |-> old_status, new_status |-> new_status, changed_at |-> t]

\* events::emit_units_assigned
emit_units_assigned(t, request_id, assigned_units) ==
    [topic |-> "units_assigned", request_id |-> request_id,
     assigned_units |-> assigned_units, assigned_at |-> t]

(* ------------------------------- lib.rs ------------------------------- *)

\* The storage of the contract: the instance entries and the records.
Snapshot == [admin |-> admin, counter |-> counter, requests |-> requests]

\* The contract as the tests register it: nothing stored, the ledger at
\* StartTime, a build that checks for overflow.
Init ==
    /\ admin = None
    /\ counter = 0
    /\ requests = <<>>
    /\ now = StartTime
    /\ op = "none"
    /\ auths = {}
    /\ args = <<>>
    /\ result = "Ok"
    /\ ret = None
    /\ events = <<>>
    /\ before = Snapshot
    /\ overflow_checks = TRUE
    /\ history = <<>>

\* The ledger timestamp of a contract that runs within 30 days of the last
\* second a u64 holds.
EdgeStartTime == U64_MAX - (MAX_DAYS_IN_FUTURE * SECONDS_PER_DAY) - 1

\* The contract registered at that time, by either build.
InitEdge ==
    /\ admin = None
    /\ counter = 0
    /\ requests = <<>>
    /\ now = EdgeStartTime
    /\ op = "none"
    /\ auths = {}
    /\ args = <<>>
    /\ result = "Ok"
    /\ ret = None
    /\ events = <<>>
    /\ before = Snapshot
    /\ overflow_checks \in BOOLEAN
    /\ history = <<>>

\* initialize without the check for a stored administrator
initialize_overwrite(a, new_admin) ==
    LET r == IF ~require_auth(a, new_admin) THEN "HostAuthError" ELSE "Ok"
    IN  /\ op' = "initialize"
        /\ before' = Snapshot
        /\ auths' = a
        /\ args' = [admin |-> new_admin]
        /\ result' = r
        /\ ret' = None
        /\ events' = <<>>
        /\ admin' = IF r = "Ok" THEN set_admin(new_admin) ELSE admin
        /\ UNCHANGED <<counter, requests, now, overflow_checks, history>>

\* RequestContract::initialize, invoked with the authorizations a
initialize(a, new_admin) ==
    LET r == IF ~require_auth(a, new_admin) THEN "HostAuthError"
             ELSE IF admin /= None THEN "AlreadyInitialized"
             ELSE "Ok"
    IN  /\ op' = "initialize"
        /\ before' = Snapshot
        /\ auths' = a
        /\ args' = [admin |-> new_admin]
        /\ result' = r
        /\ ret' = None
        /\ events' = <<>>
        /\ admin' = IF r = "Ok" THEN set_admin(new_admin) ELSE admin
        /\ UNCHANGED <<counter, requests, now, overflow_checks, history>>

\* new_request with the patient's address stored as the hospital's
new_request_patient(request_id, current_time, hospital_id, p) ==
    [id |-> request_id,
     hospital_id |-> p.patient_id,
     blood_type |-> p.blood_type,
     quantity_ml |-> p.quantity_ml,
     urgency |-> p.urgency,
     status |-> "Pending",
     created_at |-> current_time,
     required_by |-> p.required_by,
     fulfilled_at |-> None,
     assigned_units |-> <<>>,
     delivery_address |-> p.delivery_address,
     metadata |-> [patient_id |-> p.patient_id,
                   procedure |-> p.procedure,
                   notes |-> p.notes]]

\* The record create_request builds (lib.rs, step 6)
new_request(request_id, current_time, hospital_id, p) ==
    [id |-> request_id,
     hospital_id |-> hospital_id,
     blood_type |-> p.blood_type,
     quantity_ml |-> p.quantity_ml,
     urgency |-> p.urgency,
     status |-> "Pending",
     created_at |-> current_time,
     required_by |-> p.required_by,
     fulfilled_at |-> None,
     assigned_units |-> <<>>,
     delivery_address |-> p.delivery_address,
     metadata |-> [patient_id |-> p.patient_id,
                   procedure |-> p.procedure,
                   notes |-> p.notes]]

\* create_request_checks without the checks on the administrator
create_request_checks_open(a, hospital_id, p) ==
    IF ~require_auth(a, hospital_id) THEN "HostAuthError"
    ELSE AndThen(validate_request_creation(now, p.quantity_ml, p.required_by),
         AndThen(validate_delivery_address(p.delivery_address),
                 validate_blood_type(p.blood_type)))

\* create_request_checks with the parameters validated before the hospital
\* is looked up
create_request_checks_validate_first(a, hospital_id, p) ==
    IF ~require_auth(a, hospital_id) THEN "HostAuthError"
    ELSE IF admin = None THEN "NotInitialized"
    ELSE AndThen(validate_request_creation(now, p.quantity_ml, p.required_by),
         AndThen(validate_delivery_address(p.delivery_address),
         AndThen(validate_blood_type(p.blood_type),
                 IF ~is_authorized_hospital(admin, hospital_id)
                 THEN "NotAuthorizedHospital" ELSE "Ok")))

\* The checks of create_request that precede its first write (steps 1 to 4)
create_request_checks(a, hospital_id, p) ==
    IF ~require_auth(a, hospital_id) THEN "HostAuthError"
    ELSE IF admin = None THEN "NotInitialized"
    ELSE IF ~is_authorized_hospital(admin, hospital_id)
    THEN "NotAuthorizedHospital"
    ELSE AndThen(validate_request_creation(now, p.quantity_ml, p.required_by),
         AndThen(validate_delivery_address(p.delivery_address),
                 validate_blood_type(p.blood_type)))

\* RequestContract::create_request, invoked with the authorizations a; p
\* holds the parameters after hospital_id.  The counter is written (step 5)
\* before the built record is validated (step 7), and the model keeps that
\* write when step 7 returns an error.
create_request(a, hospital_id, p) ==
    LET pre == create_request_checks(a, hospital_id, p)
        request_id == increment_request_id(counter)
        request == new_request(request_id, now, hospital_id, p)
        r == AndThen(pre, validate(request, now))
    IN  /\ pre = "Ok" => counter < MaxRequests
        /\ op' = "create_request"
        /\ before' = Snapshot
        /\ auths' = a
        /\ args' = [hospital_id |-> hospital_id] @@ p
        /\ result' = r
        /\ ret' = IF r = "Ok" THEN Some(request_id) ELSE None
        /\ counter' = IF pre = "Ok" THEN request_id ELSE counter
        /\ requests' = IF r = "Ok" THEN set_blood_request(requests, request)
                       ELSE requests
        /\ events' = IF r = "Ok"
                     THEN <<emit_request_created(now, request_id, hospital_id,
                                p.blood_type, p.quantity_ml, p.urgency,
                                p.required_by)>>
                     ELSE <<>>
        /\ history' = IF r = "Ok"
                      THEN [k \in DOMAIN history \cup {request_id} |->
                               IF k = request_id THEN <<request.status>>
                               ELSE history[k]]
                      ELSE history
        /\ UNCHANGED <<admin, now, overflow_checks>>

\* admin_checks without the require_auth on the administrator
admin_checks_unauthenticated(a) ==
    IF get_admin_aborts(admin) THEN "HostPanic" ELSE "Ok"

\* The checks of update_request_status and assign_blood_units that precede
\* the load of the record
admin_checks(a) ==
    IF get_admin_aborts(admin) THEN "HostPanic"
    ELSE IF ~require_auth(a, get_admin(admin)) THEN "HostAuthError"
    ELSE "Ok"

\* updated_request that stamps fulfilled_at on the way to Completed too
updated_request_restamps(request, new_status, current_time) ==
    [request EXCEPT !.status = new_status,
                    !.fulfilled_at =
                        IF new_status \in {"Fulfilled", "Completed"}
                        THEN Some(current_time) ELSE @]

\* updated_request that stamps the fulfilment on required_by
updated_request_deadline(request, new_status, current_time) ==
    [request EXCEPT !.status = new_status,
                    !.required_by = IF new_status = "Fulfilled"
                                    THEN current_time ELSE @]

\* updated_request that clears fulfilled_at on every other transition
updated_request_clears(request, new_status, current_time) ==
    [request EXCEPT !.status = new_status,
                    !.fulfilled_at = IF new_status = "Fulfilled"
                                     THEN Some(current_time) ELSE None]

\* updated_request that stores the time since creation as fulfilled_at
updated_request_elapsed(request, new_status, current_time) ==
    [request EXCEPT !.status = new_status,
                    !.fulfilled_at =
                        IF new_status = "Fulfilled"
                        THEN Some(current_time - request.created_at) ELSE @]

\* updated_request that drops the assigned units of a request that ends
\* without being fulfilled
updated_request_unassigns(request, new_status, current_time) ==
    [request EXCEPT !.status = new_status,
                    !.fulfilled_at = IF new_status = "Fulfilled"
                                     THEN Some(current_time) ELSE @,
                    !.assigned_units =
                        IF new_status \in {"Rejected", "Cancelled"}
                        THEN <<>> ELSE @]

\* The record update_request_status stores
updated_request(request, new_status, current_time) ==
    [request EXCEPT !.status = new_status,
                    !.fulfilled_at = IF new_status = "Fulfilled"
                                     THEN Some(current_time) ELSE @]

\* update_request_status that lets a request be fulfilled only while
\* can_fulfill holds
update_request_status_gated(a, request_id, new_status) ==
    LET found == get_blood_request(requests, request_id)
        r == AndThen(admin_checks(a),
                IF found = None THEN "RequestNotFound"
                ELSE IF ~can_transition_to(found[1].status, new_status)
                THEN "InvalidStatusTransition"
                ELSE IF new_status = "Fulfilled" /\ ~can_fulfill(found[1], now)
                THEN "RequestOverdue"
                ELSE "Ok")
    IN  /\ op' = "update_request_status"
        /\ before' = Snapshot
        /\ auths' = a
        /\ args' = [request_id |-> request_id, new_status |-> new_status]
        /\ result' = r
        /\ ret' = None
        /\ requests' =
             IF r = "Ok"
             THEN set_blood_request(requests,
                      updated_request(found[1], new_status, now))
             ELSE requests
        /\ events' =
             IF r = "Ok"
             THEN <<emit_request_status_changed(now, request_id,
                        found[1].status, new_status)>>
             ELSE <<>>
        /\ history' =
             IF r = "Ok"
             THEN [history EXCEPT ![request_id] = Append(@, new_status)]
             ELSE history
        /\ UNCHANGED <<admin, counter, now, overflow_checks>>

\* RequestContract::update_request_status, invoked with the authorizations a
update_request_status(a, request_id, new_status) ==
    LET found == get_blood_request(requests, request_id)
        r == AndThen(admin_checks(a),
                IF found = None THEN "RequestNotFound"
                ELSE IF ~can_transition_to(found[1].status, new_status)
                THEN "InvalidStatusTransition"
                ELSE "Ok")
    IN  /\ op' = "update_request_status"
        /\ before' = Snapshot
        /\ auths' = a
        /\ args' = [request_id |-> request_id, new_status |-> new_status]
        /\ result' = r
        /\ ret' = None
        /\ requests' =
             IF r = "Ok"
             THEN set_blood_request(requests,
                      updated_request(found[1], new_status, now))
             ELSE requests
        /\ events' =
             IF r = "Ok"
             THEN <<emit_request_status_changed(now, request_id,
                        found[1].status, new_status)>>
             ELSE <<>>
        /\ history' =
             IF r = "Ok"
             THEN [history EXCEPT ![request_id] = Append(@, new_status)]
             ELSE history
        /\ UNCHANGED <<admin, counter, now, overflow_checks>>

\* assigned_request that appends to the units already assigned
assigned_request_append(request, unit_ids) ==
    [request EXCEPT !.assigned_units = @ \o unit_ids]

\* assigned_request that approves a pending request it assigns units to
assigned_request_approves(request, unit_ids) ==
    [request EXCEPT !.assigned_units = unit_ids,
                    !.status = IF @ = "Pending" THEN "Approved" ELSE @]

\* The record assign_blood_units stores
assigned_request(request, unit_ids) ==
    [request EXCEPT !.assigned_units = unit_ids]

\* RequestContract::assign_blood_units, invoked with the authorizations a
assign_blood_units(a, request_id, unit_ids) ==
    LET found == get_blood_request(requests, request_id)
        r == AndThen(admin_checks(a),
                IF found = None THEN "RequestNotFound" ELSE "Ok")
    IN  /\ op' = "assign_blood_units"
        /\ before' = Snapshot
        /\ auths' = a
        /\ args' = [request_id |-> request_id, unit_ids |-> unit_ids]
        /\ result' = r
        /\ ret' = None
        /\ requests' =
             IF r = "Ok"
             THEN set_blood_request(requests,
                      assigned_request(found[1], unit_ids))
             ELSE requests
        /\ events' =
             IF r = "Ok"
             THEN <<emit_units_assigned(now, request_id, unit_ids)>>
             ELSE <<>>
        /\ UNCHANGED <<admin, counter, now, overflow_checks, history>>

\* RequestContract::get_request, invoked with the authorizations a
get_request(a, request_id) ==
    LET found == get_blood_request(requests, request_id)
    IN  /\ op' = "get_request"
        /\ before' = Snapshot
        /\ auths' = a
        /\ args' = [request_id |-> request_id]
        /\ result' = IF found = None THEN "RequestNotFound" ELSE "Ok"
        /\ ret' = found
        /\ events' = <<>>
        /\ UNCHANGED <<admin, counter, requests, now, overflow_checks, history>>

\* No invocation is in progress or waiting to be returned.
Idle == op = "none"

\* The outcome of the invocation goes back to its caller: nothing of it
\* stays but the storage it wrote.
Return ==
    /\ ~Idle
    /\ op' = "none"
    /\ auths' = {}
    /\ args' = <<>>
    /\ result' = "Ok"
    /\ ret' = None
    /\ events' = <<>>
    /\ before' = Snapshot
    /\ UNCHANGED <<admin, counter, requests, now, overflow_checks, history>>

\* The ledger closes and the next one has a later timestamp.
LedgerAdvance ==
    /\ Idle
    /\ \E start \in {StartTime, EdgeStartTime} :
          /\ start <= now
          /\ now < start + MaxLedgers * LedgerSeconds
    /\ now' = now + LedgerSeconds
    /\ UNCHANGED <<admin, counter, requests, op, auths, args, result, ret, events, before, overflow_checks, history>>

\* One invocation of each exposed operation, from the idle contract
Initialize ==
    Idle /\ \E a \in AuthSets, x \in Address : initialize(a, x)

CreateRequest ==
    Idle /\ \E a \in AuthSets, h \in Address, p \in CreateInputs(now) :
                create_request(a, h, p)

UpdateRequestStatus ==
    Idle /\ \E a \in AuthSets, i \in RequestIds, s \in RequestStatus :
                update_request_status(a, i, s)

AssignBloodUnits ==
    Idle /\ \E a \in AuthSets, i \in RequestIds, u \in UnitVectors :
                assign_blood_units(a, i, u)

GetRequest ==
    Idle /\ \E a \in AuthSets, i \in RequestIds : get_request(a, i)

Next ==
    \/ Initialize
    \/ CreateRequest
    \/ UpdateRequestStatus
    \/ AssignBloodUnits
    \/ GetRequest
    \/ Return
    \/ LedgerAdvance

Spec == Init /\ [][Next]_vars

\* The same contract at the end of the range of the ledger timestamp.
SpecEdge == InitEdge /\ [][Next]_vars

(* ----------------------- the methods of a record ---------------------- *)

\* The ledger times a method of a record is called at: the ends of the
\* range of a u64, the two values around i64::MAX, and the times of the two
\* specifications above.
MethodTimes ==
    {0, 1, StartTime, I64_MAX, I64_MAX + 1, EdgeStartTime,
     EdgeStartTime + LedgerSeconds, U64_MAX}

\* The deadlines of the records at ledger time t: the times above, and the
\* values around the two limits validation sets at t.
MethodDeadlines(t) ==
    {r \in MethodTimes \cup {t + 1, t + MaxFuture, t + MaxFuture + 1} :
        r <= U64_MAX}

\* The records a test builds at ledger time t, as test.rs does: in each
\* status, with each quantity and address around what validation accepts.
MethodRecords(t) ==
    {[new_request(1, t, "GA", Template1(t)) EXCEPT
         !.status = st, !.required_by = r, !.quantity_ml = q,
         !.delivery_address = d] :
        st \in RequestStatus,
        r \in MethodDeadlines(t),
        q \in {MIN_REQUEST_QUANTITY_ML - 1, MIN_REQUEST_QUANTITY_ML,
               MAX_REQUEST_QUANTITY_ML, MAX_REQUEST_QUANTITY_ML + 1},
        d \in {"Ward 7", ""}}

\* A record has been built, by either build, and no method called on it yet.
InitMethods ==
    /\ admin = None
    /\ counter = 0
    /\ requests = <<>>
    /\ now \in MethodTimes
    /\ op = "none"
    /\ auths = {}
    /\ args \in {[self |-> r] : r \in MethodRecords(now)}
    /\ result = "Ok"
    /\ ret = None
    /\ events = <<>>
    /\ before = Snapshot
    /\ overflow_checks \in BOOLEAN
    /\ history = <<>>

\* A record is built and no method has been called on it.
Built == Idle /\ DOMAIN args = {"self"}

\* The call of a method of the record ends with the outcome r and the
\* value v.
Returns(name, r, v) ==
    /\ op' = name
    /\ result' = r
    /\ ret' = v
    /\ UNCHANGED <<admin, counter, requests, now, auths, args, events, before, overflow_checks, history>>

TimeRemaining ==
    /\ Built
    /\ IF time_remaining_aborts(args.self, now)
       THEN Returns("time_remaining", "HostPanic", None)
       ELSE Returns("time_remaining", "Ok",
                    Some(time_remaining(args.self, now)))

TimeUntilDeadline ==
    /\ Built
    /\ IF time_until_deadline_aborts(args.self.required_by, now)
       THEN Returns("time_until_deadline", "HostPanic", None)
       ELSE Returns("time_until_deadline", "Ok",
                    Some(time_until_deadline(args.self.required_by, now)))

IsOverdue ==
    /\ Built
    /\ Returns("is_overdue", "Ok", Some(is_overdue(args.self, now)))

CanFulfill ==
    /\ Built
    /\ Returns("can_fulfill", "Ok", Some(can_fulfill(args.self, now)))

Validate ==
    /\ Built
    /\ Returns("validate", validate(args.self, now), None)

IsTerminal ==
    /\ Built
    /\ Returns("is_terminal", "Ok", Some(is_terminal(args.self.status)))

NextMethods ==
    \/ TimeRemaining
    \/ TimeUntilDeadline
    \/ IsOverdue
    \/ CanFulfill
    \/ Validate
    \/ IsTerminal

SpecMethods == InitMethods /\ [][NextMethods]_vars

(* ------------------------------ the claims ---------------------------- *)

\* The operations a caller can invoke.
Operations ==
    {"initialize", "create_request", "update_request_status",
     "assign_blood_units", "get_request"}

\* The invocation that just ended carried the authorization of the
\* administrator it found stored.
ByAdmin == before.admin /= None /\ before.admin[1] \in auths

\* The six edges of the status graph, as the specification lists them.
Edges ==
    {<<"Pending", "Approved">>, <<"Pending", "Rejected">>,
     <<"Pending", "Cancelled">>, <<"Approved", "Fulfilled">>,
     <<"Approved", "Cancelled">>, <<"Fulfilled", "Completed">>}

TerminalStatuses == {"Rejected", "Completed", "Cancelled"}

\* The invocation that just ended was an update_request_status of a request
\* it found stored.
UpdateOfStored ==
    /\ op = "update_request_status"
    /\ args.request_id \in DOMAIN before.requests

\* C1: update_request_status succeeds only along one of the six edges; for
\* every other pair of current and new status the call fails and the stored
\* records stay as they were, and the failure is InvalidStatusTransition
\* when the call carries the administrator's authorization (otherwise the
\* authorization check has already aborted it).
C1_TransitionTable ==
    UpdateOfStored =>
        LET cur == before.requests[args.request_id].status
            new == args.new_status
        IN  /\ result = "Ok" => <<cur, new>> \in Edges
            /\ <<cur, new>> \notin Edges =>
                 /\ result /= "Ok"
                 /\ requests = before.requests
                 /\ ByAdmin => result = "InvalidStatusTransition"

\* C1 witness: an update off the table (Pending to Fulfilled) has been
\* refused with InvalidStatusTransition.
C1_Witness ==
    /\ UpdateOfStored
    /\ result = "InvalidStatusTransition"
    /\ args.new_status = "Fulfilled"
    /\ before.requests[args.request_id].status = "Pending"

\* C2: a request in Rejected, Completed or Cancelled keeps that status
\* through every invocation, whatever the operation; an
\* update_request_status on it fails, with InvalidStatusTransition when the
\* administrator authorized it.
C2_TerminalAbsorbing ==
    /\ \A i \in DOMAIN before.requests :
          before.requests[i].status \in TerminalStatuses =>
             /\ i \in DOMAIN requests
             /\ requests[i].status = before.requests[i].status
    /\ (UpdateOfStored
        /\ before.requests[args.request_id].status \in TerminalStatuses) =>
             /\ result /= "Ok"
             /\ ByAdmin => result = "InvalidStatusTransition"

\* C2 witness: the administrator's update of a Completed request has been
\* refused.
C2_Witness ==
    /\ UpdateOfStored
    /\ result = "InvalidStatusTransition"
    /\ before.requests[args.request_id].status = "Completed"

\* The invocation that just ended was the successful update of request i
\* into Fulfilled.
Fulfilled(i) ==
    /\ op = "update_request_status"
    /\ result = "Ok"
    /\ args.request_id = i
    /\ args.new_status = "Fulfilled"

\* C3: fulfilled_at is None when a request is created and stays None until
\* the update that moves the request from Approved to Fulfilled, which sets
\* it to the ledger timestamp of that call; no other invocation changes it.
C3_FulfilledAtSetOnce ==
    \A i \in DOMAIN requests :
        IF i \notin DOMAIN before.requests
        THEN requests[i].fulfilled_at = None
        ELSE IF Fulfilled(i)
        THEN /\ before.requests[i].status = "Approved"
             /\ before.requests[i].fulfilled_at = None
             /\ requests[i].fulfilled_at = Some(now)
        ELSE requests[i].fulfilled_at = before.requests[i].fulfilled_at

\* C3 witness: a request fulfilled in the first ledger has been completed in
\* a later one and still carries the timestamp of its fulfilment.
C3_Witness ==
    /\ op = "update_request_status"
    /\ result = "Ok"
    /\ args.new_status = "Completed"
    /\ now > StartTime
    /\ requests[args.request_id].fulfilled_at = Some(StartTime)

\* C4: the stored ids are exactly 1..counter; a successful create_request
\* returns counter + 1, a fresh id, and stores it; no other invocation
\* moves the counter, so the k-th success returns k and a failure consumes
\* no id.
C4_DenseSequentialIds ==
    /\ DOMAIN requests = 1 .. counter
    /\ IF op = "create_request" /\ result = "Ok"
       THEN /\ ret = Some(before.counter + 1)
            /\ counter = before.counter + 1
            /\ (before.counter + 1) \notin DOMAIN before.requests
            /\ DOMAIN requests = DOMAIN before.requests \cup {counter}
       ELSE /\ counter = before.counter
            /\ DOMAIN requests = DOMAIN before.requests

\* C4 witness: the second successful creation has returned id 2.
C4_Witness ==
    /\ op = "create_request"
    /\ result = "Ok"
    /\ ret = Some(2)
    /\ DOMAIN before.requests = {1}
    /\ DOMAIN requests = {1, 2}

\* C5: an invocation that fails ends with one error (a ContractError or an
\* abort of the host), returns nothing, publishes nothing, and leaves the
\* administrator, the counter and every stored record as they were.
C5_FailureChangesNothing ==
    (op \in Operations /\ result /= "Ok") =>
        /\ result \in ContractError \cup HostAbort
        /\ ret = None
        /\ events = <<>>
        /\ admin = before.admin
        /\ counter = before.counter
        /\ requests = before.requests

\* C5 witness: a create_request has failed at its last check, the delivery
\* address, after a request was stored.
C5_Witness ==
    /\ op = "create_request"
    /\ result = "InvalidInput"
    /\ counter = 1
    /\ DOMAIN requests = {1}

\* C6: once the administrator is set, a create_request whose caller is
\* authenticated and is not the administrator fails with
\* NotAuthorizedHospital and leaves the records and the counter as they
\* were, whatever the other parameters.
C6_NonAdminCannotCreate ==
    (/\ op = "create_request"
     /\ before.admin /= None
     /\ args.hospital_id \in auths
     /\ args.hospital_id /= before.admin[1]) =>
        /\ result = "NotAuthorizedHospital"
        /\ requests = before.requests
        /\ counter = before.counter

\* C6 witness: an authenticated account other than the administrator has
\* been refused a request that passes validation.
C6_Witness ==
    /\ op = "create_request"
    /\ result = "NotAuthorizedHospital"
    /\ args.hospital_id \in auths
    /\ args.quantity_ml = MAX_REQUEST_QUANTITY_ML
    /\ args.required_by = now + MaxFuture

\* C7: an update_request_status or assign_blood_units that does not carry
\* the authorization of the stored administrator aborts and changes no
\* record, nor the counter, nor the administrator; so a record changed by
\* either was changed under the administrator's authorization.
C7_OnlyAdminModifies ==
    op \in {"update_request_status", "assign_blood_units"} =>
        /\ ~ByAdmin =>
              /\ result \in HostAbort
              /\ requests = before.requests
              /\ counter = before.counter
              /\ admin = before.admin
        /\ requests /= before.requests => ByAdmin

\* C7 witness: an update along an edge of the table, signed by another
\* account than the administrator, has been aborted.
C7_Witness ==
    /\ UpdateOfStored
    /\ result = "HostAuthError"
    /\ requests[args.request_id].status = "Pending"
    /\ args.new_status = "Approved"

\* C8: the administrator is written only by a successful initialize of the
\* uninitialized contract; once set it never changes, and every later
\* initialize fails, with AlreadyInitialized when the call carries the
\* authorization of the address it passes, whichever address that is.
C8_AdminSetOnce ==
    /\ admin /= before.admin =>
          /\ before.admin = None
          /\ op = "initialize"
          /\ result = "Ok"
          /\ admin = Some(args.admin)
    /\ (before.admin /= None /\ op = "initialize") =>
          /\ result /= "Ok"
          /\ args.admin \in auths => result = "AlreadyInitialized"
          /\ admin = before.admin

\* C8 witness: a second initialize, passing and signed by another address
\* than the administrator, has failed with AlreadyInitialized.
C8_Witness ==
    /\ op = "initialize"
    /\ result = "AlreadyInitialized"
    /\ args.admin /= admin[1]

\* C9: the record a successful create_request stores is Pending, has no
\* fulfilled_at and no assigned units, carries the caller and the
\* parameters passed, and has the ledger timestamp of the call as
\* created_at.
C9_CreatedRecord ==
    (op = "create_request" /\ result = "Ok") =>
        /\ ret /= None
        /\ ret[1] \in DOMAIN requests
        /\ LET r == requests[ret[1]]
           IN  /\ r.status = "Pending"
               /\ r.fulfilled_at = None
               /\ r.assigned_units = <<>>
               /\ r.hospital_id = args.hospital_id
               /\ r.blood_type = args.blood_type
               /\ r.quantity_ml = args.quantity_ml
               /\ r.urgency = args.urgency
               /\ r.required_by = args.required_by
               /\ r.delivery_address = args.delivery_address
               /\ r.created_at = now

\* C9 witness: a request has been created in the second ledger, after
\* another one.
C9_Witness ==
    /\ op = "create_request"
    /\ result = "Ok"
    /\ ret = Some(2)
    /\ now > StartTime
    /\ requests[2].created_at = now

\* The other conditions of a create_request are met: the caller is the
\* authenticated administrator, the deadline is within 30 days after the
\* ledger time and the delivery address is not empty.
OtherwiseValid ==
    /\ ByAdmin
    /\ args.hospital_id = before.admin[1]
    /\ now < args.required_by
    /\ args.required_by <= now + 30 * 86400
    /\ args.delivery_address /= ""

\* C10: an administrator's create_request with otherwise valid parameters
\* succeeds exactly when 50 <= quantity_ml <= 5000, and fails with
\* InvalidQuantity otherwise: 49 and 5001 fail, 50 and 5000 succeed.
C10_QuantityBounds ==
    (op = "create_request" /\ OtherwiseValid) =>
        /\ result = "Ok" <=> (50 <= args.quantity_ml /\ args.quantity_ml <= 5000)
        /\ result /= "Ok" => result = "InvalidQuantity"

\* C10 witness: with requests of 50 ml and of 5000 ml stored, an otherwise
\* valid request of 5001 ml has been refused with InvalidQuantity.
C10_Witness ==
    /\ op = "create_request"
    /\ OtherwiseValid
    /\ args.quantity_ml = 5001
    /\ result = "InvalidQuantity"
    /\ \E i \in DOMAIN requests : requests[i].quantity_ml = 50
    /\ \E i \in DOMAIN requests : requests[i].quantity_ml = 5000

\* The invocation that just ended was a create_request by the
\* authenticated administrator, with a quantity and an address that pass
\* validation.
ValidButDeadline ==
    /\ op = "create_request"
    /\ ByAdmin
    /\ args.hospital_id = before.admin[1]
    /\ 50 <= args.quantity_ml
    /\ args.quantity_ml <= 5000
    /\ args.delivery_address /= ""

\* C11: at every ledger time now and for every required_by, an
\* administrator's create_request with otherwise valid parameters succeeds
\* exactly when now < required_by <= now + 30*86400, and fails with
\* InvalidTimestamp otherwise.
C11_TimestampBounds ==
    ValidButDeadline =>
        /\ result = "Ok" <=>
              (now < args.required_by /\ args.required_by <= now + 30 * 86400)
        /\ result /= "Ok" => result = "InvalidTimestamp"

\* C12: every stored record has 50 <= quantity_ml <= 5000, a non-empty
\* delivery_address and created_at < required_by <= created_at + 30 days,
\* and update_request_status and assign_blood_units leave these four fields
\* of every record as they were.
C12_StoredRecordsValid ==
    /\ \A i \in DOMAIN requests :
          /\ 50 <= requests[i].quantity_ml
          /\ requests[i].quantity_ml <= 5000
          /\ requests[i].delivery_address /= ""
          /\ requests[i].created_at < requests[i].required_by
          /\ requests[i].required_by <= requests[i].created_at + 30 * 86400
    /\ op \in {"update_request_status", "assign_blood_units"} =>
          \A i \in DOMAIN before.requests :
             /\ i \in DOMAIN requests
             /\ requests[i].quantity_ml = before.requests[i].quantity_ml
             /\ requests[i].delivery_address
                   = before.requests[i].delivery_address
             /\ requests[i].created_at = before.requests[i].created_at
             /\ requests[i].required_by = before.requests[i].required_by

\* C12 witness: a request of 50 ml due one second after its creation has
\* been fulfilled while a request of 5000 ml due 30 days after its creation
\* is stored.
C12_Witness ==
    /\ op = "update_request_status"
    /\ result = "Ok"
    /\ args.new_status = "Fulfilled"
    /\ requests[args.request_id].quantity_ml = 50
    /\ requests[args.request_id].required_by
          = requests[args.request_id].created_at + 1
    /\ \E i \in DOMAIN requests :
          /\ requests[i].quantity_ml = 5000
          /\ requests[i].required_by = requests[i].created_at + 30 * 86400

\* C13: the record stored under key k has id k; no invocation changes the
\* id of a stored record, and a create_request leaves every record it
\* found exactly as it was.
C13_IdImmutable ==
    /\ \A k \in DOMAIN requests : requests[k].id = k
    /\ \A k \in DOMAIN before.requests :
          /\ k \in DOMAIN requests
          /\ requests[k].id = before.requests[k].id
          /\ op = "create_request" => requests[k] = before.requests[k]

\* C13 witness: a second request has been created after the first one was
\* approved and had units assigned, and the first one is still as it was.
C13_Witness ==
    /\ op = "create_request"
    /\ result = "Ok"
    /\ ret = Some(2)
    /\ requests[1].status = "Approved"
    /\ requests[1].assigned_units = <<2, 2, 1>>
    /\ requests[1] /= requests[2]

\* The ids the successful create_request calls had returned when the
\* invocation began: the k-th success returned k and the counter counts the
\* successes (C4).
ReturnedIds == 1 .. before.counter

\* C14: records are never deleted; get_request(id) returns the stored
\* record exactly when an earlier successful create_request returned id and
\* fails with RequestNotFound for every other id, and so do the
\* administrator's update_request_status and assign_blood_units.
C14_NotFound ==
    /\ \A i \in DOMAIN before.requests : i \in DOMAIN requests
    /\ op = "get_request" =>
          IF args.request_id \in ReturnedIds
          THEN /\ result = "Ok"
               /\ ret = Some(before.requests[args.request_id])
          ELSE /\ result = "RequestNotFound"
               /\ ret = None
    /\ (op \in {"update_request_status", "assign_blood_units"} /\ ByAdmin) =>
          (result = "RequestNotFound" <=> args.request_id \notin ReturnedIds)

\* C14 witness: with two requests created, get_request of the id 3 has
\* failed with RequestNotFound.
C14_Witness ==
    /\ op = "get_request"
    /\ result = "RequestNotFound"
    /\ args.request_id = 3
    /\ before.counter = 2
    /\ requests[1].status /= requests[2].status

\* C15: update_request_status and assign_blood_units called before
\* initialize end with a ContractError, as every failing invocation does.
C15_TypedFailures ==
    (/\ op \in {"update_request_status", "assign_blood_units"}
     /\ before.admin = None) =>
        result \in ContractError

\* C16: a create_request found the administrator unset fails, with
\* NotInitialized whenever its caller is authenticated, whatever the caller
\* and the parameters, and stores nothing; where the administrator is unset
\* there is no record and the counter is 0.
C16_CreateBeforeInitialize ==
    /\ (op = "create_request" /\ before.admin = None) =>
          /\ result /= "Ok"
          /\ args.hospital_id \in auths => result = "NotInitialized"
          /\ requests = before.requests
          /\ counter = before.counter
    /\ admin = None => (counter = 0 /\ requests = <<>>)

\* C16 witness: a create_request that passes validation, from an
\* authenticated caller, has failed with NotInitialized.
C16_Witness ==
    /\ op = "create_request"
    /\ result = "NotInitialized"
    /\ admin = None
    /\ args.quantity_ml = MAX_REQUEST_QUANTITY_ML
    /\ args.required_by = now + MaxFuture
    /\ args.delivery_address /= ""

\* C17: authorization is decided before validation.  A create_request
\* whose caller is not authenticated is aborted by require_auth, and one
\* whose authenticated caller is not the administrator fails with
\* NotAuthorizedHospital, whatever the quantity, the deadline and the
\* address; an update_request_status or assign_blood_units that lacks the
\* administrator's authorization is aborted by require_auth and never
\* reports RequestNotFound or InvalidStatusTransition, whatever the id and
\* the new status.
C17_AuthorizationFirst ==
    /\ op = "create_request" =>
          /\ args.hospital_id \notin auths => result = "HostAuthError"
          /\ (/\ before.admin /= None
              /\ args.hospital_id \in auths
              /\ args.hospital_id /= before.admin[1]) =>
                 result = "NotAuthorizedHospital"
    /\ (op \in {"update_request_status", "assign_blood_units"} /\ ~ByAdmin) =>
          /\ result \notin {"Ok", "RequestNotFound", "InvalidStatusTransition"}
          /\ before.admin /= None => result = "HostAuthError"

\* C17 witness: an authenticated caller other than the administrator has
\* been refused, as unauthorized, a request whose quantity, deadline and
\* address are all invalid.
C17_Witness ==
    /\ op = "create_request"
    /\ result = "NotAuthorizedHospital"
    /\ args.quantity_ml = MIN_REQUEST_QUANTITY_ML - 1
    /\ args.required_by = now
    /\ args.delivery_address = ""

\* C18: the administrator's authenticated create_request reports the first
\* failing check in the order quantity, deadline, address: InvalidQuantity
\* if the quantity is outside [50, 5000], otherwise InvalidTimestamp if
\* required_by is outside (now, now + 30 days], otherwise InvalidInput if
\* the address is empty, and otherwise it succeeds.
C18_FirstFailingCheck ==
    (op = "create_request" /\ ByAdmin /\ args.hospital_id = before.admin[1]) =>
        result =
            IF args.quantity_ml < 50 \/ args.quantity_ml > 5000
            THEN "InvalidQuantity"
            ELSE IF args.required_by <= now
                    \/ args.required_by > now + 30 * 86400
            THEN "InvalidTimestamp"
            ELSE IF args.delivery_address = ""
            THEN "InvalidInput"
            ELSE "Ok"

\* C18 witness: the administrator's request with a quantity, a deadline and
\* an address that are all invalid has been refused with InvalidQuantity.
C18_Witness ==
    /\ op = "create_request"
    /\ result = "InvalidQuantity"
    /\ ByAdmin
    /\ args.quantity_ml = MAX_REQUEST_QUANTITY_ML + 1
    /\ args.required_by = now + MaxFuture + 1
    /\ args.delivery_address = ""

\* The path of a request that each step of the administrator advances.
Lifecycle ==
    {<<"Pending", "Approved">>, <<"Approved", "Fulfilled">>,
     <<"Fulfilled", "Completed">>}

\* C19: the administrator's update_request_status along
\* Pending -> Approved -> Fulfilled -> Completed succeeds at each step and
\* leaves the record in the new status, at any ledger time and whatever
\* units are assigned; and between those steps no invocation other than a
\* successful update_request_status of the same request changes its status:
\* not those on other requests, not assign_blood_units, not a failing call.
C19_LifecycleSucceeds ==
    /\ (UpdateOfStored /\ ByAdmin
        /\ <<before.requests[args.request_id].status, args.new_status>>
              \in Lifecycle) =>
             /\ result = "Ok"
             /\ requests[args.request_id].status = args.new_status
    /\ \A i \in DOMAIN before.requests :
          (~(op = "update_request_status" /\ result = "Ok"
             /\ args.request_id = i)) =>
             requests[i].status = before.requests[i].status
    /\ \A i \in DOMAIN requests :
          i \notin DOMAIN before.requests => requests[i].status = "Pending"

\* C19 witness: the second request, past its deadline and with units
\* assigned, has been completed in a later ledger than it was created in,
\* after the first request was cancelled.
C19_Witness ==
    /\ op = "update_request_status"
    /\ result = "Ok"
    /\ args.request_id = 2
    /\ args.new_status = "Completed"
    /\ requests[2].created_at < now
    /\ requests[2].required_by < now
    /\ requests[2].assigned_units /= <<>>
    /\ requests[1].status = "Cancelled"

\* C20: after a successful assign_blood_units the record's assigned_units
\* is exactly the sequence passed, whatever was assigned before, and the
\* rest of the record and every other record are as they were.
C20_UnitsReplaced ==
    (op = "assign_blood_units" /\ result = "Ok") =>
        /\ args.request_id \in DOMAIN before.requests
        /\ requests[args.request_id].assigned_units = args.unit_ids
        /\ requests =
              [before.requests EXCEPT
                  ![args.request_id].assigned_units = args.unit_ids]

\* C20 witness: the units 2, 2, 1 have been assigned to a request that
\* already had units assigned, and the record holds 2, 2, 1.
C20_Witness ==
    /\ op = "assign_blood_units"
    /\ result = "Ok"
    /\ before.requests[args.request_id].assigned_units /= <<>>
    /\ args.unit_ids = <<2, 2, 1>>
    /\ requests[args.request_id].assigned_units = <<2, 2, 1>>

\* C21: for all u64 values of required_by and now, time_remaining (and
\* validation::time_until_deadline) returns the integer required_by - now,
\* negative when now > required_by: no conversion or subtraction wraps, and
\* none aborts.
C21_TimeRemainingExact ==
    op \in {"time_remaining", "time_until_deadline"} =>
        /\ result = "Ok"
        /\ ret = Some(args.self.required_by - now)

\* C22: is_overdue(now) is true exactly when now > required_by, so not at
\* now = required_by, and exactly when time_remaining(now) is negative.
C22_OverdueIffNegative ==
    op = "is_overdue" =>
        /\ ret = Some(now > args.self.required_by)
        /\ ret[1] <=> (/\ ~time_remaining_aborts(args.self, now)
                       /\ time_remaining(args.self, now) < 0)

\* C23: can_fulfill(now) is true exactly when the status is Approved and
\* now <= required_by, for every status and every now.
C23_CanFulfill ==
    op = "can_fulfill" =>
        ret = Some(args.self.status = "Approved" /\ now <= args.self.required_by)

\* C23 witness: an Approved record can be fulfilled at its deadline, a
\* time beyond i64::MAX.
C23_Witness ==
    /\ op = "can_fulfill"
    /\ ret = Some(TRUE)
    /\ now = args.self.required_by
    /\ now > I64_MAX

\* C24: on a record built with created_at = now, BloodRequest::validate(now)
\* ends as validate_request_creation followed by validate_delivery_address
\* does: Ok, the same error, or the same abort; so it never fails after
\* the checks that precede it in create_request have passed.
C24_ValidationsAgree ==
    (op = "validate" /\ args.self.created_at = now) =>
        result =
            AndThen(validate_request_creation(now, args.self.quantity_ml,
                                              args.self.required_by),
                    validate_delivery_address(args.self.delivery_address))

\* C24 witness: the record with an accepted quantity, a deadline 30 days
\* ahead and an empty address has been refused with InvalidInput.
C24_Witness ==
    /\ op = "validate"
    /\ result = "InvalidInput"
    /\ args.self.created_at = now
    /\ args.self.required_by = now + MaxFuture
    /\ args.self.quantity_ml = MAX_REQUEST_QUANTITY_ML

\* The topic of the notification each operation publishes.
TopicOf ==
    [create_request |-> "request_created",
     update_request_status |-> "request_status_changed",
     assign_blood_units |-> "units_assigned"]

\* C25: a successful create_request, update_request_status or
\* assign_blood_units has published exactly one notification, of its own
\* kind and about the record it has written; a failing call, a get_request
\* and an initialize have published none; the status-changed notification
\* carries the status the call found as old_status and the status it left
\* as new_status.
C25_Notifications ==
    IF op \in DOMAIN TopicOf /\ result = "Ok"
    THEN /\ Len(events) = 1
         /\ events[1].topic = TopicOf[op]
         /\ events[1].request_id \in DOMAIN requests
         /\ op = "create_request" =>
               /\ ret = Some(events[1].request_id)
               /\ events[1].request_id \notin DOMAIN before.requests
               /\ events[1].created_at
                     = requests[events[1].request_id].created_at
         /\ op = "update_request_status" =>
               /\ events[1].request_id = args.request_id
               /\ events[1].old_status
                     = before.requests[args.request_id].status
               /\ events[1].new_status = requests[args.request_id].status
               /\ events[1].new_status = args.new_status
         /\ op = "assign_blood_units" =>
               /\ events[1].request_id = args.request_id
               /\ events[1].assigned_units
                     = requests[args.request_id].assigned_units
    ELSE events = <<>>

\* C25 witness: the fulfilment of an approved request has published one
\* notification, from Approved to Fulfilled.
C25_Witness ==
    /\ op = "update_request_status"
    /\ Len(events) = 1
    /\ events[1].old_status = "Approved"
    /\ events[1].new_status = "Fulfilled"
    /\ requests[args.request_id].status = "Fulfilled"

\* A request in status s can be driven to a terminal status by at most n
\* allowed transitions.
RECURSIVE ReachesTerminal(_, _)
ReachesTerminal(s, n) ==
    \/ is_terminal(s)
    \/ /\ n > 0
       /\ \E t \in RequestStatus :
             can_transition_to(s, t) /\ ReachesTerminal(t, n - 1)

\* C26: of the status of every stored record, is_terminal holds exactly
\* for Rejected, Completed and Cancelled, which are exactly the statuses
\* without an allowed transition; the
\* administrator's update_request_status succeeds on every allowed
\* transition in every state, so a request that is not terminal has a
\* transition the administrator can apply and a path of such transitions
\* to a terminal status.
C26_TerminalIffNoEdge ==
    /\ \A i \in DOMAIN requests :
          LET s == requests[i].status
          IN  /\ is_terminal(s) <=> s \in {"Rejected", "Completed", "Cancelled"}
              /\ is_terminal(s) <=>
                    (\A t \in RequestStatus : ~can_transition_to(s, t))
              /\ ReachesTerminal(s, 3)
    /\ (UpdateOfStored /\ ByAdmin) =>
          (result = "Ok" <=>
              can_transition_to(before.requests[args.request_id].status,
                                args.new_status))
    /\ (UpdateOfStored /\ result = "Ok") =>
          ~is_terminal(before.requests[args.request_id].status)

\* C26 witness: a fulfilled request, which is not terminal and overdue,
\* has been driven to the terminal Completed while another request is
\* still Pending.
C26_Witness ==
    /\ UpdateOfStored
    /\ result = "Ok"
    /\ before.requests[args.request_id].status = "Fulfilled"
    /\ is_terminal(requests[args.request_id].status)
    /\ \E i \in DOMAIN requests : requests[i].status = "Pending"

\* C27: over any sequence of operations a request never returns to a
\* status it held before, and it undergoes at most 3 successful status
\* transitions; history[i] is the sequence of statuses request i has held,
\* which ends with its present status.
C27_AcyclicBounded ==
    /\ DOMAIN history = DOMAIN requests
    /\ \A i \in DOMAIN requests :
          /\ history[i][Len(history[i])] = requests[i].status
          /\ \A j, k \in 1 .. Len(history[i]) :
                j /= k => history[i][j] /= history[i][k]
          /\ Len(history[i]) - 1 <= 3

\* C27 witness: a request has undergone 3 transitions, another one 2.
C27_Witness ==
    /\ \E i \in DOMAIN history : Len(history[i]) = 4
    /\ \E i \in DOMAIN history :
          history[i] = <<"Pending", "Approved", "Cancelled">>

\* C28: in every state and for every stored record, fulfilled_at is set
\* exactly when the status is Fulfilled or Completed.
C28_FulfilledAtIffFulfilled ==
    \A i \in DOMAIN requests :
        requests[i].fulfilled_at /= None
            <=> requests[i].status \in {"Fulfilled", "Completed"}

\* C28 witness: one request is Completed and carries its fulfilled_at,
\* another was cancelled after its approval and carries none.
C28_Witness ==
    /\ UpdateOfStored
    /\ result = "Ok"
    /\ before.requests[args.request_id].status = "Approved"
    /\ args.new_status = "Cancelled"
    /\ requests[args.request_id].fulfilled_at = None
    /\ \E i \in DOMAIN requests :
          /\ requests[i].status = "Completed"
          /\ requests[i].fulfilled_at /= None

\* C29: the ledger timestamp never decreases, and every stored record with
\* fulfilled_at = Some(t) has created_at <= t.
C29_CreatedBeforeFulfilled ==
    /\ \A i \in DOMAIN requests :
          /\ requests[i].created_at <= now
          /\ requests[i].fulfilled_at /= None =>
                /\ requests[i].created_at <= requests[i].fulfilled_at[1]
                /\ requests[i].fulfilled_at[1] <= now
    /\ \A i \in DOMAIN before.requests :
          before.requests[i].created_at <= now

\* C29 witness: one request was fulfilled in the ledger it was created in,
\* and another one, created in the first ledger, in a later ledger.
C29_Witness ==
    /\ DOMAIN requests = {1, 2}
    /\ requests[1].fulfilled_at = Some(now)
    /\ requests[1].created_at < now
    /\ requests[2].fulfilled_at = Some(requests[2].created_at)

\* C30: the administrator's assign_blood_units succeeds on a stored
\* request in each of the six statuses, and changes nothing but the
\* assigned_units of that record.
C30_AssignFrame ==
    (/\ op = "assign_blood_units"
     /\ ByAdmin
     /\ args.request_id \in DOMAIN before.requests) =>
        /\ result = "Ok"
        /\ [requests[args.request_id] EXCEPT
               !.assigned_units = before.requests[args.request_id].assigned_units]
              = before.requests[args.request_id]
        /\ \A i \in DOMAIN requests :
              /\ i \in DOMAIN before.requests
              /\ i /= args.request_id => requests[i] = before.requests[i]
        /\ admin = before.admin
        /\ counter = before.counter

\* C30 witness: units have been assigned to a Completed request, which is
\* still Completed and keeps its fulfilled_at, while the other request is
\* Pending.
C30_Witness ==
    /\ op = "assign_blood_units"
    /\ result = "Ok"
    /\ args.unit_ids /= <<>>
    /\ requests[args.request_id].status = "Completed"
    /\ requests[args.request_id].fulfilled_at /= None
    /\ before.requests[args.request_id].assigned_units = <<>>
    /\ \E i \in DOMAIN requests : requests[i].status = "Pending"

\* C31: update_request_status(id, ..) and assign_blood_units(id, ..)
\* leave every record with another id, the counter and the administrator
\* as they were; update_request_status changes only the status and the
\* fulfilled_at of its record; create_request leaves every record it found
\* as it was; get_request changes nothing.
C31_Frame ==
    /\ op \in {"update_request_status", "assign_blood_units"} =>
          /\ DOMAIN requests = DOMAIN before.requests
          /\ \A i \in DOMAIN requests :
                i /= args.request_id => requests[i] = before.requests[i]
          /\ counter = before.counter
          /\ admin = before.admin
    /\ UpdateOfStored =>
          [requests[args.request_id] EXCEPT
              !.status = before.requests[args.request_id].status,
              !.fulfilled_at = before.requests[args.request_id].fulfilled_at]
             = before.requests[args.request_id]
    /\ op = "create_request" =>
          /\ \A i \in DOMAIN before.requests :
                i \in DOMAIN requests /\ requests[i] = before.requests[i]
          /\ admin = before.admin
    /\ op = "get_request" =>
          /\ requests = before.requests
          /\ counter = before.counter
          /\ admin = before.admin

\* C31 witness: the second request, which has units assigned, has been
\* rejected while the first one, fulfilled and with units assigned too,
\* stayed as it was.
C31_Witness ==
    /\ UpdateOfStored
    /\ result = "Ok"
    /\ args.request_id = 2
    /\ args.new_status = "Rejected"
    /\ requests[2].assigned_units /= <<>>
    /\ requests[1].status = "Fulfilled"
    /\ requests[1].assigned_units /= <<>>

\* The outcome of update_request_status as a function of whether the
\* record exists and of the pair of its status and the new one.
OutcomeOf(exists, current, new) ==
    IF ~exists THEN "RequestNotFound"
    ELSE IF <<current, new>> \in Edges THEN "Ok"
    ELSE "InvalidStatusTransition"

\* C32: the outcome of the administrator's update_request_status(id, new)
\* is a function of whether the record exists and of (current status,
\* new), the same in every state: it does not depend on the ledger time,
\* the deadline, the urgency or the assigned units, and the fulfilment of
\* an approved request succeeds also past required_by and without units.
C32_OutcomeByStatusOnly ==
    (op = "update_request_status" /\ ByAdmin) =>
        /\ result =
              OutcomeOf(args.request_id \in DOMAIN before.requests,
                        IF args.request_id \in DOMAIN before.requests
                        THEN before.requests[args.request_id].status
                        ELSE "Pending",
                        args.new_status)
        /\ (/\ args.request_id \in DOMAIN before.requests
            /\ before.requests[args.request_id].status = "Approved"
            /\ args.new_status = "Fulfilled") =>
               /\ result = "Ok"
               /\ requests[args.request_id].status = "Fulfilled"

\* C32 witness: an approved request of critical urgency with no units
\* assigned has been fulfilled after its deadline, while another approved
\* request, of normal urgency, with units and ahead of its deadline,
\* is stored.
C32_Witness ==
    /\ UpdateOfStored
    /\ result = "Ok"
    /\ args.new_status = "Fulfilled"
    /\ before.requests[args.request_id].urgency = "Critical"
    /\ before.requests[args.request_id].assigned_units = <<>>
    /\ is_overdue(before.requests[args.request_id], now)
    /\ ~can_fulfill(before.requests[args.request_id], now)
    /\ \E i \in DOMAIN requests :
          /\ requests[i].status = "Approved"
          /\ requests[i].urgency = "Normal"
          /\ requests[i].assigned_units /= <<>>
          /\ can_fulfill(requests[i], now)

====
